---- MODULE Spec2Model ----
(***************************************************************************)
(* Model of monitor.py: the self-healing monitor daemon.                   *)
(*                                                                         *)
(* Text (Python str) is modelled as a sequence of tokens.  A token is a    *)
(* word; two adjacent word tokens are separated by one blank; the token    *)
(* NL is the newline character.  Concatenation of strings is \o.           *)
(***************************************************************************)
EXTENDS Integers, Sequences, FiniteSets, TLC

\* ---------------------------------------------------------------- bounds
\* Number of monitoring cycles explored (the loop of main() is unbounded).
MaxCycles == 3
\* Cap on GEMINI_CALL_COUNT in the daemon (the counter is unbounded in the code).
MaxCalls == 2
\* Number of poll intervals of clock time explored when ask_ai_hybrid is
\* driven on its own, and the cap on GEMINI_CALL_COUNT there.
MaxTicks == 36
MaxAskCalls == 4

\* ------------------------------------------------------------- constants
POLL_INTERVAL == 60
\* ERROR_BACKOFF["wait_min"] at start-up.
BASE_WAIT_MIN == 5
\* Seconds per minute: the factor of line 193.
SECONDS_PER_MIN == 60

NL == "NL"

\* The two problem keys check_system() passes to intelligent_troubleshoot.
Keys == {"nas_down", "cockpit_down"}

NAS_DESC == <<"NAS", "at", "/mnt/nas", "is", "not", "mounted.">>
COCKPIT_DESC == <<"Service", "'cockpit'", "is", "inactive.">>

\* -------------------------------------------------------- text functions
IsSpace(tok) == tok = NL

RECURSIVE lstrip(_)
lstrip(s) ==
    IF s = <<>> THEN s
    ELSE IF IsSpace(Head(s)) THEN lstrip(Tail(s)) ELSE s

RECURSIVE rstrip(_)
rstrip(s) ==
    IF s = <<>> THEN s
    ELSE IF IsSpace(s[Len(s)]) THEN rstrip(SubSeq(s, 1, Len(s) - 1)) ELSE s

\* str.strip()
strip(s) == rstrip(lstrip(s))

\* s.split('\n')[-1]: the text after the last newline.
RECURSIVE LastLine(_)
LastLine(s) ==
    IF \E i \in 1..Len(s) : s[i] = NL
    THEN LastLine(Tail(s))
    ELSE s

\* line.replace('MAJOR: ', ''): the marker is removed where a blank follows
\* it, i.e. where another word follows on the same line.
RECURSIVE ReplaceMajor(_)
ReplaceMajor(line) ==
    IF line = <<>> THEN line
    ELSE IF Head(line) = "MAJOR:" /\ Len(line) > 1 /\ ~IsSpace(line[2])
         THEN ReplaceMajor(Tail(line))
         ELSE <<Head(line)>> \o ReplaceMajor(Tail(line))

\* "ERROR" in text (substring test: the token ERROR: contains it too).
ContainsERROR(text) ==
    \E i \in 1..Len(text) : text[i] \in {"ERROR", "ERROR:"}

\* cmd = ai_cmd.split('\n')[-1].replace('MAJOR: ', '').strip()
ExtractCmd(ai_cmd) == strip(ReplaceMajor(LastLine(ai_cmd)))

\* is_major = "MAJOR:" in ai_cmd or "rm " in cmd or "reboot" in cmd
IsMajor(ai_cmd, cmd) ==
    \/ \E i \in 1..Len(ai_cmd) : ai_cmd[i] = "MAJOR:"
    \/ \E i \in 1..Len(cmd) : cmd[i] = "rm" /\ i < Len(cmd)
    \/ \E i \in 1..Len(cmd) : cmd[i] = "reboot"

\* ------------------------------------------------------------ environment
\* Raw texts a provider may return (before .strip()).
Responses ==
    { <<"mount", "point", "missing", NL, "sudo", "mount", "-a">>,
      <<"MAJOR:", "sudo", "mount", "-a", NL>>,
      <<"disk", "ERROR", NL, "fsck">>,
      <<NL>> }

\* Outcome of one provider request: an exception, or a response text.
ProviderFail == [ok |-> FALSE, text |-> <<>>]
ProviderOutcomes ==
    {ProviderFail} \cup {[ok |-> TRUE, text |-> r] : r \in Responses}

\* Outcome of open(CACHE_FILE,'w') / json.dump in save_cache.
SaveOutcomes == {"ok", "open_fail", "write_fail"}

\* Contents of CACHE_FILE: absent, not parseable, or a JSON mapping.
FileAbsent == [state |-> "absent", data |-> <<>>]
FileCorrupt == [state |-> "corrupt", data |-> <<>>]
FileOf(map) == [state |-> "ok", data |-> map]

EmptyMap == <<>>
StaleCmd == <<"mount", "/mnt/nas">>

\* Files the daemon may find at start-up.
InitFiles ==
    { FileAbsent, FileCorrupt, FileOf([k \in Keys |-> StaleCmd]) }

\* Lines 50-55: FIX_CACHE = {} unless the file exists and parses.
LoadCache(file) == IF file.state = "ok" THEN file.data ELSE EmptyMap

\* ------------------------------------------------------------------ trace
\* One observable step of a call: a notification (send_msg), an execution
\* (run_host_cmd), a call of ask_ai_hybrid and its return, a provider request.
Ev(ev, text, ok) == [ev |-> ev, text |-> text, ok |-> ok]
Notify(kind, text) == Ev(kind, text, TRUE)


\* ---------------------------------------------------------------- state
VARIABLES
    FIX_CACHE,          \* line 51: problem key -> learned command
    cacheFile,          \* contents of CACHE_FILE on disk
    SYSTEM_STATE,       \* line 58: SYSTEM_STATE["nas"], "ok" or "error"
    ERROR_BACKOFF,      \* line 59: [active, wait_min, next_try]
    GEMINI_CALL_COUNT,  \* line 19
    OPENAI_CALL_COUNT,  \* line 20
    openai_client,      \* lines 34-40: TRUE iff the OpenAI client exists
    now,                \* time.time(), seconds
    heartbeat,          \* contents of HEARTBEAT_FILE
    pc,                 \* position of main()'s loop
    cycle,              \* number of completed iterations of the loop
    lastCall,           \* record of the most recent intelligent_troubleshoot call
    fullFailures,       \* history: calls of ask_ai_hybrid so far in which every
                        \* provider failed (lines 189-195 were reached)
    lastProbe,          \* history: the most recent health probe of check_system
    handled,            \* history: the handler of lines 245-247 ended the last iteration
    lastPersisted       \* history: the mapping of the last write of CACHE_FILE that
                        \* succeeded (at start-up: the mapping the file gave)

vars == <<FIX_CACHE, cacheFile, SYSTEM_STATE, ERROR_BACKOFF, GEMINI_CALL_COUNT,
          OPENAI_CALL_COUNT, openai_client, now, heartbeat, pc, cycle, lastCall,
          fullFailures, lastProbe, handled, lastPersisted>>

\* The daemon's globals as one record, the argument of a call.
Globals ==
    [cache |-> FIX_CACHE, file |-> cacheFile, backoff |-> ERROR_BACKOFF,
     gem |-> GEMINI_CALL_COUNT, oai |-> OPENAI_CALL_COUNT,
     client |-> openai_client, now |-> now]

\* ----------------------------------------------------------- save_cache
\* Lines 63-67.  open(...,'w') truncates the file before json.dump writes
\* it; every exception is caught and printed.
save_cache(cache, file, outcome) ==
    CASE outcome = "ok"         -> FileOf(cache)
      [] outcome = "open_fail"  -> file
      [] outcome = "write_fail" -> FileCorrupt

\* Variant: a failed write lets its exception escape save_cache.
SaveRaisesOnFailure(outcome) == outcome # "ok"

\* Lines 65-67: whether save_cache lets an exception escape.  The except
\* clause catches every Exception and prints it.
SaveRaises(outcome) == FALSE

\* -------------------------------------------------------- ask_ai_hybrid
CoolingDown == <<"ERROR:", "AI", "Cooling", "Down">>
Unavailable == <<"ERROR:", "Unavailable">>

\* Variant: the comparison with next_try reversed.
InBackoffReversed(bo, t) == bo.active /\ t > bo.next_try

\* Lines 149-151: the backoff check.
InBackoff(bo, t) == bo.active /\ t < bo.next_try

\* Variant: the wait grows by the base wait instead of doubling.
TriggerBackoffLinear(bo, t) ==
    [active   |-> TRUE,
     next_try |-> t + bo.wait_min * SECONDS_PER_MIN,
     wait_min |-> bo.wait_min + BASE_WAIT_MIN]

\* Variant: the window is scheduled but the active flag is not set.
TriggerBackoffNotActive(bo, t) ==
    [active   |-> bo.active,
     next_try |-> t + bo.wait_min * SECONDS_PER_MIN,
     wait_min |-> bo.wait_min * 2]

\* Lines 189-195: all providers failed.
TriggerBackoff(bo, t) ==
    [active   |-> TRUE,
     next_try |-> t + bo.wait_min * SECONDS_PER_MIN,
     wait_min |-> bo.wait_min * 2]

\* Variant: a provider's answer ends the backoff and resets the wait.
AfterSuccessReset(bo) ==
    [active |-> FALSE, next_try |-> bo.next_try, wait_min |-> BASE_WAIT_MIN]

\* Lines 166 and 185: ERROR_BACKOFF when a provider's answer is returned.
\* Neither return statement writes it.
AfterSuccess(bo) == bo

\* Variant: the fallback is tried whether or not a client was configured.
TriesOpenAIUnconfigured(client, gem) == ~gem.ok

\* Lines 170-171: whether the fallback provider is tried after Gemini failed.
TriesOpenAI(client, gem) == client /\ ~gem.ok

\* Variant: the fallback is tried silently.
SwitchNoticeOmitted == <<>>

\* Line 174: the notification sent before the fallback provider is tried.
SwitchNotice == <<Notify("SwitchingToChatGPT", <<>>)>>

\* Record of "no call of ask_ai_hybrid" from globals st.
NoAsk(st) ==
    [called |-> FALSE, prompt |-> <<>>, pre |-> st, resp |-> <<>>, ret |-> <<>>,
     source |-> "none",
     backoff |-> st.backoff, gem |-> st.gem, oai |-> st.oai, trace |-> <<>>]

\* Lines 145-195.  st: the globals at entry (backoff, now, gem, oai, client
\* are read).  gem, oai: what each provider request does if it is made.
\* The result holds the returned text, the globals at exit, the ordered
\* trace, and source: which return statement was taken.
ask_ai_hybrid(prompt, st, gem, oai) ==
    LET tryG  == <<Ev("gemini", prompt, gem.ok)>>
        tryO  == SwitchNotice \o <<Ev("openai", prompt, oai.ok)>>
        dead  == <<Notify("AllAIsDead", <<ToString(st.backoff.wait_min)>>)>>
        base  == [NoAsk(st) EXCEPT !.called = TRUE, !.prompt = prompt]
        second == TriesOpenAI(st.client, gem)
    IN
    IF InBackoff(st.backoff, st.now) THEN
        [base EXCEPT !.ret = CoolingDown, !.source = "cooldown"]
    ELSE IF gem.ok THEN
        [base EXCEPT !.resp = gem.text, !.ret = strip(gem.text), !.source = "gemini",
                     !.backoff = AfterSuccess(st.backoff),
                     !.gem = st.gem + 1, !.trace = tryG]
    ELSE IF second /\ oai.ok THEN
        [base EXCEPT !.resp = oai.text, !.ret = strip(oai.text), !.source = "openai",
                     !.backoff = AfterSuccess(st.backoff),
                     !.gem = st.gem + 1, !.oai = st.oai + 1,
                     !.trace = tryG \o tryO]
    ELSE
        [base EXCEPT !.ret = Unavailable, !.source = "unavailable",
                     !.backoff = TriggerBackoff(st.backoff, st.now),
                     !.gem = st.gem + 1,
                     !.oai = IF second THEN st.oai + 1 ELSE st.oai,
                     !.trace = tryG \o (IF second THEN tryO ELSE <<>>) \o dead]

\* ---------------------------------------------- intelligent_troubleshoot
\* Variant: the note does not name the command.
FailureNoteWithoutCmd(cached_cmd) ==
    <<NL, "Note:", "I", "already", "tried", "a", "fix", "and", "it", "failed.">>

\* Line 115: problem_desc += "\nNote: I already tried '<cmd>' and it failed."
FailureNote(cached_cmd) ==
    <<NL, "Note:", "I", "already", "tried">> \o cached_cmd \o <<"and", "it", "failed.">>

\* Variant: an existing entry is kept (dict.setdefault).
LearnIfAbsent(cache, problem_key, cmd) ==
    [k \in DOMAIN cache \cup {problem_key} |->
        IF k \in DOMAIN cache THEN cache[k] ELSE cmd]

\* Variant: the mapping is replaced by the single new entry.
LearnAlone(cache, problem_key, cmd) == [k \in {problem_key} |-> cmd]

\* Line 138: FIX_CACHE[problem_key] = cmd
Learn(cache, problem_key, cmd) ==
    [k \in DOMAIN cache \cup {problem_key} |->
        IF k = problem_key THEN cmd ELSE cache[k]]

\* Variant: the test is missing, every returned text is executed.
IsAIFailureNever(ai_cmd) == FALSE

\* Line 120: the test that decides between "AI Failure" and execution.
IsAIFailure(ai_cmd) == ContainsERROR(ai_cmd)

\* Variant: the return after a successful learned fix is missing.
CachedFixedNever(hit, cachedOk) == FALSE

\* Lines 104-111: the call ends with the learned fix.
CachedFixed(hit, cachedOk) == hit /\ cachedOk

\* Value of lastCall when a step made no call of intelligent_troubleshoot.
NoCall(st) ==
    [called |-> FALSE, key |-> "none", desc |-> <<>>, pre |-> st,
     cache |-> st.cache, file |-> st.file, backoff |-> st.backoff,
     gem |-> st.gem, oai |-> st.oai, ask |-> NoAsk(st),
     cmd |-> <<>>, is_major |-> FALSE, ret |-> FALSE, trace |-> <<>>,
     save |-> "none", raised |-> FALSE]

\* Line 81: the call ends with an exception of its first send_msg (print
\* raises), before anything else is done.
RaisedAtEntry(problem_key, problem_desc, st) ==
    [NoCall(st) EXCEPT !.called = TRUE, !.key = problem_key, !.desc = problem_desc,
                       !.raised = TRUE]

\* Lines 92-143.  st: the globals at entry.  env: what the collaborators do
\* if they are used: cachedOk, aiOk (run_host_cmd's success for the cached and
\* for the AI command), gemini, openai (the provider requests), save
\* (save_cache's file operations).  The result holds the return value, the
\* globals at exit, the record of the ask_ai_hybrid call and the ordered
\* trace of the whole call; save is what save_cache did ("none": not called)
\* and raised tells that the call ended with an exception.
intelligent_troubleshoot(problem_key, problem_desc, st, env) ==
    LET hit        == problem_key \in DOMAIN st.cache
        cached_cmd == IF hit THEN st.cache[problem_key] ELSE <<>>
        t0   == <<Notify("IssueDetected", problem_desc)>>
        tHit == t0 \o <<Notify("Memory", cached_cmd),
                        Ev("run_host_cmd", cached_cmd, env.cachedOk)>>
        t1   == IF hit THEN tHit \o <<Notify("MemoryFailed", <<>>)>> ELSE t0
        desc == IF hit THEN problem_desc \o FailureNote(cached_cmd) ELSE problem_desc
        a    == ask_ai_hybrid(desc, st, env.gemini, env.openai)
        t2   == t1 \o <<Ev("ask_ai_hybrid", desc, TRUE)>> \o a.trace
                   \o <<Ev("ask_return", a.ret, a.source \in {"gemini", "openai"})>>
        cmd  == ExtractCmd(a.ret)
        t3   == t2 \o <<Notify("AISuggests", cmd), Ev("run_host_cmd", cmd, env.aiOk)>>
        learned == Learn(st.cache, problem_key, cmd)
        base == [NoCall(st) EXCEPT !.called = TRUE, !.key = problem_key,
                                   !.desc = problem_desc]
        asked == [base EXCEPT !.backoff = a.backoff, !.gem = a.gem, !.oai = a.oai,
                              !.ask = a]
    IN
    IF CachedFixed(hit, env.cachedOk) THEN
        [base EXCEPT !.ret = TRUE,
                     !.trace = tHit \o <<Notify("FixedViaMemory", <<>>)>>]
    ELSE IF IsAIFailure(a.ret) THEN
        [asked EXCEPT !.ret = FALSE,
                      !.trace = t2 \o <<Notify("AIFailure", a.ret)>>]
    ELSE IF env.aiOk THEN
        [asked EXCEPT !.ret = ~SaveRaises(env.save),
                      !.raised = SaveRaises(env.save),
                      !.cmd = cmd, !.is_major = IsMajor(a.ret, cmd),
                      !.cache = learned,
                      !.file = save_cache(learned, st.file, env.save),
                      !.save = env.save,
                      !.trace = t3 \o <<Notify("AIFixedIt", <<>>)>>]
    ELSE
        [asked EXCEPT !.ret = FALSE, !.cmd = cmd, !.is_major = IsMajor(a.ret, cmd),
                      !.trace = t3 \o <<Notify("AIFixFailed", <<>>)>>]

\* What the collaborators may do during one call.
Envs ==
    [cachedOk : BOOLEAN, gemini : ProviderOutcomes, openai : ProviderOutcomes,
     aiOk : BOOLEAN, save : SaveOutcomes]

\* The members of Envs that differ in something the call for problem_key
\* from globals st reads: a collaborator the call does not reach is given
\* one fixed outcome (FALSE, ProviderFail, "ok").
EnvsFor(problem_key, st) ==
    LET hit   == problem_key \in DOMAIN st.cache
        gate  == InBackoff(st.backoff, st.now)
        Cs    == IF hit THEN BOOLEAN ELSE {FALSE}
        asks(c)    == ~CachedFixed(hit, c) /\ ~gate
        Gs(c)      == IF asks(c) THEN ProviderOutcomes ELSE {ProviderFail}
        Os(c, g)   == IF asks(c) /\ ~g.ok /\ st.client
                      THEN ProviderOutcomes ELSE {ProviderFail}
        runs(c, g, o) ==
            /\ asks(c)
            /\ \/ g.ok /\ ~IsAIFailure(strip(g.text))
               \/ ~g.ok /\ st.client /\ o.ok /\ ~IsAIFailure(strip(o.text))
        As(c, g, o) == IF runs(c, g, o) THEN BOOLEAN ELSE {FALSE}
        Ss(a)       == IF a THEN SaveOutcomes ELSE {"ok"}
    IN UNION { UNION { UNION { UNION {
          { [cachedOk |-> c, gemini |-> g, openai |-> o, aiOk |-> a, save |-> s]
            : s \in Ss(a) }
          : a \in As(c, g, o) } : o \in Os(c, g) } : g \in Gs(c) } : c \in Cs }

\* The globals a call leaves behind.
Commit(r) ==
    /\ FIX_CACHE' = r.cache
    /\ cacheFile' = r.file
    /\ ERROR_BACKOFF' = r.backoff
    /\ GEMINI_CALL_COUNT' = r.gem
    /\ OPENAI_CALL_COUNT' = r.oai
    /\ lastCall' = r
    /\ fullFailures' = IF r.ask.source = "unavailable"
                       THEN fullFailures + 1 ELSE fullFailures
    /\ lastPersisted' = IF r.save = "ok" THEN r.cache ELSE lastPersisted

\* ------------------------------------------------------------------ main
\* Value of lastProbe when no probe has been made in the iteration.
NoProbe == [target |-> "none", healthy |-> TRUE, nas_before |-> "ok"]

\* Lines 50-59 and 229-233: the state when main() enters its loop.
Init ==
    /\ cacheFile \in InitFiles
    /\ FIX_CACHE = LoadCache(cacheFile)
    /\ SYSTEM_STATE = "ok"
    /\ ERROR_BACKOFF = [active |-> FALSE, wait_min |-> BASE_WAIT_MIN, next_try |-> 0]
    /\ GEMINI_CALL_COUNT = 0
    /\ OPENAI_CALL_COUNT = 0
    /\ openai_client \in BOOLEAN
    /\ now = 0
    /\ heartbeat = 0
    /\ pc = "loop"
    /\ cycle = 0
    /\ lastCall = NoCall(Globals)
    /\ fullFailures = 0
    /\ lastProbe = NoProbe
    /\ handled = FALSE
    /\ lastPersisted = LoadCache(cacheFile)

\* Line 238: the heartbeat file is rewritten at the top of each iteration.
Heartbeat ==
    /\ pc = "loop"
    /\ cycle < MaxCycles
    /\ heartbeat' = now
    /\ pc' = "nas"
    /\ handled' = FALSE
    /\ UNCHANGED <<FIX_CACHE, cacheFile, SYSTEM_STATE, ERROR_BACKOFF, GEMINI_CALL_COUNT,
                   OPENAI_CALL_COUNT, openai_client, now, cycle, lastCall,
                   fullFailures, lastProbe, lastPersisted>>

\* Line 238: open() or write() of the heartbeat file raises.
HeartbeatFails ==
    /\ pc = "loop"
    /\ cycle < MaxCycles
    /\ pc' = "except"
    /\ handled' = FALSE
    /\ UNCHANGED <<FIX_CACHE, cacheFile, SYSTEM_STATE, ERROR_BACKOFF, GEMINI_CALL_COUNT,
                   OPENAI_CALL_COUNT, openai_client, now, heartbeat, cycle, lastCall,
                   fullFailures, lastProbe, lastPersisted>>

\* Variant: remediation is tried in every cycle in which the mount is missing.
NasNeedsFixAlways(is_mounted, nas) == ~is_mounted

\* Variant: the comparison with "ok" inverted.
NasNeedsFixWhenError(is_mounted, nas) == ~is_mounted /\ nas = "error"

\* Lines 205-206: the NAS check calls intelligent_troubleshoot.
NasNeedsFix(is_mounted, nas) == ~is_mounted /\ nas = "ok"

\* Variant: the cockpit check only prints.
CockpitNeedsFixNever(is_active) == FALSE

\* Line 220: the cockpit check calls intelligent_troubleshoot.
CockpitNeedsFix(is_active) == ~is_active

\* Lines 202-215: the NAS check of check_system.
NasCheck ==
    /\ pc = "nas"
    /\ \E is_mounted \in BOOLEAN, env \in EnvsFor("nas_down", Globals) :
         /\ lastProbe' = [target |-> "nas", healthy |-> is_mounted,
                          nas_before |-> SYSTEM_STATE]
         /\ IF NasNeedsFix(is_mounted, SYSTEM_STATE) THEN
               LET r == intelligent_troubleshoot("nas_down", NAS_DESC, Globals, env) IN
               /\ r.gem <= MaxCalls
               /\ Commit(r)
               /\ SYSTEM_STATE' = IF r.ret THEN "ok" ELSE "error"
               /\ pc' = IF r.raised THEN "except" ELSE "service"
            ELSE
               /\ Commit(NoCall(Globals))
               /\ SYSTEM_STATE' = IF is_mounted THEN "ok" ELSE SYSTEM_STATE
               /\ pc' = "service"
    /\ UNCHANGED <<openai_client, now, heartbeat, cycle, handled>>

\* Lines 207-210 and 81: the call made by the NAS check raises at once.
NasCheckRaises ==
    /\ pc = "nas"
    /\ NasNeedsFix(FALSE, SYSTEM_STATE)
    /\ lastProbe' = [target |-> "nas", healthy |-> FALSE, nas_before |-> SYSTEM_STATE]
    /\ Commit(RaisedAtEntry("nas_down", NAS_DESC, Globals))
    /\ SYSTEM_STATE' = "error"
    /\ pc' = "except"
    /\ UNCHANGED <<openai_client, now, heartbeat, cycle, handled>>

\* Lines 217-224: the cockpit service check of check_system.
ServiceCheck ==
    /\ pc = "service"
    /\ \E is_active \in BOOLEAN, env \in EnvsFor("cockpit_down", Globals) :
         /\ lastProbe' = [target |-> "cockpit", healthy |-> is_active,
                          nas_before |-> SYSTEM_STATE]
         /\ IF CockpitNeedsFix(is_active) THEN
               LET r == intelligent_troubleshoot("cockpit_down", COCKPIT_DESC, Globals, env) IN
               /\ r.gem <= MaxCalls
               /\ Commit(r)
               /\ pc' = IF r.raised THEN "except" ELSE "sleep"
            ELSE
               /\ Commit(NoCall(Globals))
               /\ pc' = "sleep"
    /\ UNCHANGED <<SYSTEM_STATE, openai_client, now, heartbeat, cycle, handled>>

\* Lines 222 and 81: the call made by the cockpit check raises at once.
ServiceCheckRaises ==
    /\ pc = "service"
    /\ CockpitNeedsFix(FALSE)
    /\ lastProbe' = [target |-> "cockpit", healthy |-> FALSE, nas_before |-> SYSTEM_STATE]
    /\ Commit(RaisedAtEntry("cockpit_down", COCKPIT_DESC, Globals))
    /\ pc' = "except"
    /\ UNCHANGED <<SYSTEM_STATE, openai_client, now, heartbeat, cycle, handled>>

\* Line 242: time.sleep(POLL_INTERVAL), then the next iteration.
Sleep ==
    /\ pc = "sleep"
    /\ now' = now + POLL_INTERVAL
    /\ cycle' = cycle + 1
    /\ pc' = "loop"
    /\ lastCall' = NoCall(Globals)
    /\ lastProbe' = NoProbe
    /\ UNCHANGED <<FIX_CACHE, cacheFile, SYSTEM_STATE, ERROR_BACKOFF, GEMINI_CALL_COUNT,
                   OPENAI_CALL_COUNT, openai_client, heartbeat, fullFailures, handled,
                   lastPersisted>>

\* Variant: the handler leaves the loop.
LoopErrorExits ==
    /\ pc = "except"
    /\ pc' = "crashed"
    /\ UNCHANGED <<FIX_CACHE, cacheFile, SYSTEM_STATE, ERROR_BACKOFF, GEMINI_CALL_COUNT,
                   OPENAI_CALL_COUNT, openai_client, now, heartbeat, cycle, lastCall,
                   fullFailures, lastProbe, handled, lastPersisted>>

\* Lines 245-247: the handler prints, sleeps the poll interval, and the
\* loop goes on with the next iteration.
LoopError ==
    /\ pc = "except"
    /\ now' = now + POLL_INTERVAL
    /\ cycle' = cycle + 1
    /\ pc' = "loop"
    /\ handled' = TRUE
    /\ lastCall' = NoCall(Globals)
    /\ lastProbe' = NoProbe
    /\ UNCHANGED <<FIX_CACHE, cacheFile, SYSTEM_STATE, ERROR_BACKOFF, GEMINI_CALL_COUNT,
                   OPENAI_CALL_COUNT, openai_client, heartbeat, fullFailures,
                   lastPersisted>>

\* Lines 242-244 and 247: KeyboardInterrupt while the process sleeps ends
\* the loop (caught at line 243, escaping from the handler's sleep).
Interrupt ==
    /\ pc \in {"sleep", "except"}
    /\ pc' = "stopped"
    /\ UNCHANGED <<FIX_CACHE, cacheFile, SYSTEM_STATE, ERROR_BACKOFF, GEMINI_CALL_COUNT,
                   OPENAI_CALL_COUNT, openai_client, now, heartbeat, cycle, lastCall,
                   fullFailures, lastProbe, handled, lastPersisted>>

\* One step of the daemon itself.
Step ==
    \/ Heartbeat \/ HeartbeatFails
    \/ NasCheck \/ NasCheckRaises
    \/ ServiceCheck \/ ServiceCheckRaises
    \/ Sleep \/ LoopError

Next == Step \/ Interrupt

Spec == Init /\ [][Next]_vars

\* Lines 242 and 247: time.sleep returns, so an iteration that has reached
\* one of the two sleeps goes on.  Nothing is assumed about the interrupt.
LiveSpec == Spec /\ WF_vars(Sleep) /\ WF_vars(LoopError)

\* ---------------------------------------------------------- restart
\* Lines 50-59 and 229-233 again: the process has ended between two
\* iterations (or was interrupted) and is started anew; the module-level
\* globals are rebuilt and only CACHE_FILE and the clock carry over.
Restart ==
    /\ pc \in {"loop", "stopped"}
    /\ cycle < MaxCycles
    /\ FIX_CACHE' = LoadCache(cacheFile)
    /\ SYSTEM_STATE' = "ok"
    /\ ERROR_BACKOFF' = [active |-> FALSE, wait_min |-> BASE_WAIT_MIN, next_try |-> 0]
    /\ GEMINI_CALL_COUNT' = 0
    /\ OPENAI_CALL_COUNT' = 0
    /\ pc' = "loop"
    /\ cycle' = cycle + 1
    /\ lastCall' = NoCall([Globals EXCEPT
                               !.cache = LoadCache(cacheFile),
                               !.backoff = [active |-> FALSE, wait_min |-> BASE_WAIT_MIN,
                                            next_try |-> 0],
                               !.gem = 0, !.oai = 0])
    /\ fullFailures' = 0
    /\ lastProbe' = NoProbe
    /\ handled' = FALSE
    /\ UNCHANGED <<cacheFile, openai_client, now, heartbeat, lastPersisted>>

RestartNext == Next \/ Restart

RestartSpec == Init /\ [][RestartNext]_vars

\* ------------------------------------------- ask_ai_hybrid on its own
\* The provider chain driven directly: ask_ai_hybrid is called with the
\* prompts intelligent_troubleshoot builds, at any time the clock shows, and
\* the clock advances by poll intervals between calls.
Prompts == { NAS_DESC, COCKPIT_DESC \o FailureNote(StaleCmd) }

\* The provider outcomes that differ in something the call reads.
GeminiOutcomes(st) ==
    IF InBackoff(st.backoff, st.now) THEN {ProviderFail} ELSE ProviderOutcomes
OpenAIOutcomes(st, gem) ==
    IF ~InBackoff(st.backoff, st.now) /\ ~gem.ok /\ st.client
    THEN ProviderOutcomes ELSE {ProviderFail}

AskCall ==
    /\ \E prompt \in Prompts, gem \in GeminiOutcomes(Globals) :
       \E oai \in OpenAIOutcomes(Globals, gem) :
         LET a == ask_ai_hybrid(prompt, Globals, gem, oai) IN
         /\ a.gem <= MaxAskCalls
         /\ ERROR_BACKOFF' = a.backoff
         /\ GEMINI_CALL_COUNT' = a.gem
         /\ OPENAI_CALL_COUNT' = a.oai
         /\ lastCall' = [NoCall(Globals) EXCEPT !.ask = a]
         /\ fullFailures' = IF a.source = "unavailable"
                            THEN fullFailures + 1 ELSE fullFailures
    /\ UNCHANGED <<FIX_CACHE, cacheFile, SYSTEM_STATE, openai_client, now,
                   heartbeat, pc, cycle, lastProbe, handled, lastPersisted>>

Tick ==
    /\ cycle < MaxTicks
    /\ now' = now + POLL_INTERVAL
    /\ cycle' = cycle + 1
    /\ lastCall' = NoCall(Globals)
    /\ UNCHANGED <<FIX_CACHE, cacheFile, SYSTEM_STATE, ERROR_BACKOFF, GEMINI_CALL_COUNT,
                   OPENAI_CALL_COUNT, openai_client, heartbeat, pc, fullFailures,
                   lastProbe, handled, lastPersisted>>

AskNext == AskCall \/ Tick

AskInit == Init /\ cacheFile = FileAbsent

AskSpec == AskInit /\ [][AskNext]_vars

\* ======================================================== properties
\* Reading the record of the most recent call.
Trace == lastCall.trace
Ask == lastCall.ask

IsExec(e) == e.ev = "run_host_cmd"
IsProviderRequest(e) == e.ev \in {"gemini", "openai"}
IsNotification(e) ==
    e.ev \notin {"run_host_cmd", "ask_ai_hybrid", "ask_return", "gemini", "openai"}

\* Positions of the trace where run_host_cmd was called.
ExecAt == {i \in 1..Len(Trace) : IsExec(Trace[i])}
\* The execution of the learned command follows the "Memory" notification,
\* the execution of the AI's command follows the "AI Suggests" one.
CachedExecAt == {i \in ExecAt : Trace[i - 1].ev = "Memory"}
AIExecAt == {i \in ExecAt : Trace[i - 1].ev = "AISuggests"}
AskAt == {i \in 1..Len(Trace) : Trace[i].ev = "ask_ai_hybrid"}

\* The kinds of the notifications of the call, in order.
RECURSIVE KindsOf(_)
KindsOf(tr) ==
    IF tr = <<>> THEN <<>>
    ELSE (IF IsNotification(Head(tr)) THEN <<Head(tr).ev>> ELSE <<>>)
         \o KindsOf(Tail(tr))

\* seq occurs in text as a contiguous run of tokens.
Occurs(seq, text) ==
    \E i \in 0..(Len(text) - Len(seq)) : SubSeq(text, i + 1, i + Len(seq)) = seq

\* The cache has the same entry, or the same absence of one, for key k.
SameEntry(c1, c2, k) ==
    /\ (k \in DOMAIN c1) = (k \in DOMAIN c2)
    /\ k \in DOMAIN c1 => c1[k] = c2[k]

\* ---- C1
\* C1: after a call for key K in which the AI-derived command C was executed
\* and run_host_cmd reported success, FIX_CACHE maps K to exactly C, whether
\* K had no entry or another entry before.
C1_LearnOnSuccess ==
    lastCall.called =>
        \A i \in AIExecAt :
            Trace[i].ok =>
                /\ lastCall.key \in DOMAIN FIX_CACHE
                /\ FIX_CACHE[lastCall.key] = Trace[i].text

\* A successful AI-derived fix replaced a different learned command.
C1_Witness ==
    /\ lastCall.called
    /\ lastCall.key \in DOMAIN lastCall.pre.cache
    /\ \E i \in AIExecAt :
          /\ Trace[i].ok
          /\ Trace[i].text # lastCall.pre.cache[lastCall.key]
          /\ Trace[i].text # <<>>

\* ---- C2
\* C2: a call for key K changes FIX_CACHE only when an AI-derived command
\* executed successfully, and then only the entry of K; in every other call
\* (learned command succeeded, AI command failed, no usable answer) the whole
\* mapping is what it was before the call.
C2_CacheFrame ==
    lastCall.called =>
        IF \E i \in AIExecAt : Trace[i].ok
        THEN \A k \in Keys \ {lastCall.key} :
                SameEntry(FIX_CACHE, lastCall.pre.cache, k)
        ELSE FIX_CACHE = lastCall.pre.cache

\* An AI-derived fix succeeded for one key while the other key had an entry.
C2_Witness ==
    /\ lastCall.called
    /\ \E i \in AIExecAt : Trace[i].ok
    /\ \E k \in Keys \ {lastCall.key} : k \in DOMAIN lastCall.pre.cache

\* ---- C3
\* C3: for a key with no cache entry, every command run_host_cmd is called
\* with is the one extracted from a provider response returned to that same
\* call before the execution; nothing is executed before ask_ai_hybrid is
\* called, and nothing when it returns without a provider response.
C3_CacheFirst ==
    (lastCall.called /\ lastCall.key \notin DOMAIN lastCall.pre.cache) =>
        /\ \A i \in ExecAt :
              \E j \in 1..(i - 1) :
                  /\ Trace[j].ev = "ask_return"
                  /\ Trace[j].ok
                  /\ \E a \in AskAt : a < j
                  /\ Trace[i].text = ExtractCmd(Trace[j].text)
        /\ Ask.source \in {"cooldown", "unavailable"} => ExecAt = {}

\* A key without entry had a provider's command executed.
C3_Witness ==
    /\ lastCall.called
    /\ lastCall.key \notin DOMAIN lastCall.pre.cache
    /\ ExecAt # {}

\* ---- C4
\* C4: when the learned command for K is executed and fails, the same call
\* goes on to call ask_ai_hybrid exactly once, after that execution, with the
\* original description followed by a note that names the learned command
\* and says it failed.
C4_FallbackOnCacheFail ==
    lastCall.called =>
        \A i \in CachedExecAt :
            ~Trace[i].ok =>
                /\ Cardinality(AskAt) = 1
                /\ \A j \in AskAt :
                      LET prompt == Trace[j].text
                          n == Len(lastCall.desc)
                          note == SubSeq(prompt, n + 1, Len(prompt))
                      IN /\ j > i
                         /\ Len(prompt) > n
                         /\ SubSeq(prompt, 1, n) = lastCall.desc
                         /\ Occurs(Trace[i].text, note)
                         /\ Occurs(<<"failed.">>, note)
                         /\ prompt = Ask.prompt

\* A learned command failed and the provider chain was asked.
C4_Witness ==
    /\ lastCall.called
    /\ \E i \in CachedExecAt : ~Trace[i].ok /\ Trace[i].text = StaleCmd
    /\ Ask.called

\* ---- C5
\* Positions of the provider requests made by the ask_ai_hybrid call.
GeminiAt == {i \in 1..Len(Ask.trace) : Ask.trace[i].ev = "gemini"}
OpenAIAt == {i \in 1..Len(Ask.trace) : Ask.trace[i].ev = "openai"}

\* The call of ask_ai_hybrid was made inside an active backoff window.
AskedInWindow ==
    /\ Ask.called
    /\ Ask.pre.backoff.active
    /\ Ask.pre.now < Ask.pre.backoff.next_try

\* The call contacted no provider, left the counters and the backoff state
\* alone, and returned an error text instead of a suggestion.
ShortCircuited ==
    /\ GeminiAt = {} /\ OpenAIAt = {}
    /\ GEMINI_CALL_COUNT = Ask.pre.gem
    /\ OPENAI_CALL_COUNT = Ask.pre.oai
    /\ ERROR_BACKOFF = Ask.pre.backoff
    /\ Ask.source = "cooldown"
    /\ ContainsERROR(Ask.ret)

\* C5: every call of ask_ai_hybrid made while backoff is active and the clock
\* is before next_try contacts no provider, leaves both call counters
\* unchanged and returns the unavailable result, whatever the problem key.
C5_BackoffGating ==
    AskedInWindow =>
        /\ ShortCircuited
        /\ lastCall.called => (~lastCall.ret /\ AIExecAt = {})

\* The cockpit call of the first cycle is short-circuited by the backoff
\* that the NAS call of the same cycle triggered.
C5_Witness ==
    /\ cycle = 0
    /\ lastCall.key = "cockpit_down"
    /\ AskedInWindow
    /\ fullFailures = 1

\* ---- C6
\* C6: after the Nth call of ask_ai_hybrid in which every configured provider
\* failed, next_try lies BASE_WAIT_MIN * 2^(N-1) minutes after the time of
\* that failure.
C6_ExponentialWait ==
    (Ask.called /\ Ask.source = "unavailable") =>
        ERROR_BACKOFF.next_try - Ask.pre.now
            = BASE_WAIT_MIN * 2^(fullFailures - 1) * SECONDS_PER_MIN

\* The third full failure has just happened.
C6_Witness ==
    /\ Ask.called
    /\ Ask.source = "unavailable"
    /\ fullFailures = 3

\* ---- C7
\* Every call so far that contacted a provider ended with all of them failing.
AllContactsFailed == fullFailures = GEMINI_CALL_COUNT

\* C7 as stated: with both providers failing on every contact, backoff is
\* not active before the third call has failed, and a later call inside the
\* window is short-circuited.
C7_ThirdCallActivates ==
    (openai_client /\ AllContactsFailed) =>
        /\ ERROR_BACKOFF.active => fullFailures >= 3
        /\ (AskedInWindow /\ fullFailures >= 3) => ShortCircuited

\* C7, amended: with both providers failing on every contact, backoff is
\* inactive before the first call, the first call contacts both providers and
\* activates backoff, backoff stays active, and every later call made before
\* next_try is short-circuited.
C7_FirstCallActivates ==
    (openai_client /\ AllContactsFailed) =>
        /\ ERROR_BACKOFF.active <=> fullFailures >= 1
        /\ (Ask.called /\ Ask.pre.gem = 0) =>
              /\ ~Ask.pre.backoff.active
              /\ Cardinality(GeminiAt) = 1 /\ Cardinality(OpenAIAt) = 1
              /\ Ask.source = "unavailable"
              /\ ERROR_BACKOFF.active
        /\ (Ask.called /\ Ask.pre.gem >= 1
               /\ Ask.pre.now < Ask.pre.backoff.next_try) => ShortCircuited

\* After one failed call, a second call inside the window was short-circuited.
C7_Witness ==
    /\ openai_client
    /\ AllContactsFailed
    /\ fullFailures = 1
    /\ Ask.called
    /\ Ask.pre.gem = 1
    /\ Ask.source = "cooldown"

\* ---- C8
\* C8: a call of ask_ai_hybrid that is not short-circuited contacts Gemini
\* exactly once and first; it contacts OpenAI, at most once, iff a client is
\* configured and Gemini failed in that call; when Gemini succeeds its answer
\* is returned; without a client a Gemini failure gives the unavailable result
\* and activates backoff.
C8_PriorityOrder ==
    (Ask.called /\ Ask.source # "cooldown") =>
        /\ Cardinality(GeminiAt) = 1
        /\ Cardinality(OpenAIAt) <= 1
        /\ GEMINI_CALL_COUNT = Ask.pre.gem + 1
        /\ OPENAI_CALL_COUNT = Ask.pre.oai + Cardinality(OpenAIAt)
        /\ \A g \in GeminiAt :
              /\ \A o \in OpenAIAt : g < o
              /\ OpenAIAt # {} <=> (openai_client /\ ~Ask.trace[g].ok)
              /\ Ask.trace[g].ok => (Ask.source = "gemini" /\ Ask.ret = strip(Ask.resp))
              /\ (~Ask.trace[g].ok /\ ~openai_client) =>
                    /\ Ask.source = "unavailable"
                    /\ Ask.ret = Unavailable
                    /\ ERROR_BACKOFF.active

\* Gemini failed and the configured fallback answered.
C8_Witness ==
    /\ Ask.called
    /\ Ask.source = "openai"
    /\ OpenAIAt # {}

\* ---- C9
\* A call for a key without entry in which Gemini failed, OpenAI returned a
\* suggestion and run_host_cmd reported success for it.
FallbackFixed ==
    /\ lastCall.called
    /\ lastCall.key \notin DOMAIN lastCall.pre.cache
    /\ Ask.source = "openai"
    /\ \E i \in AIExecAt : Trace[i].ok

\* C9 as stated: such a call returns true and sends exactly the
\* notifications issue-detected, AI-suggests, AI-fixed, in this order.
C9_ThreeNotifications ==
    FallbackFixed =>
        /\ lastCall.ret
        /\ KindsOf(Trace) = <<"IssueDetected", "AISuggests", "AIFixedIt">>

\* C9, amended: such a call returns true and sends exactly the notifications
\* issue-detected, switching-to-ChatGPT, AI-suggests, AI-fixed, in this order.
C9_FourNotifications ==
    FallbackFixed =>
        /\ lastCall.ret
        /\ KindsOf(Trace) =
              <<"IssueDetected", "SwitchingToChatGPT", "AISuggests", "AIFixedIt">>

\* Scenario A of the specification.
C9_Witness ==
    /\ FallbackFixed
    /\ lastCall.key = "nas_down"
    /\ Ask.resp = <<"mount", "point", "missing", NL, "sudo", "mount", "-a">>
    /\ "nas_down" \in DOMAIN FIX_CACHE
    /\ FIX_CACHE["nas_down"] = <<"sudo", "mount", "-a">>

\* ---- C10
\* C10: in a call that reaches the AI step, run_host_cmd is called with an
\* AI-derived command iff a provider returned a response: every returned
\* response leads to exactly one execution of its extracted command, and the
\* unavailable result leads to a failure notification and return value false
\* with no execution.
C10_ExecIffResponse ==
    (lastCall.called /\ Ask.called) =>
        /\ Ask.source \in {"gemini", "openai"} =>
              /\ Cardinality(AIExecAt) = 1
              /\ \A i \in AIExecAt : Trace[i].text = ExtractCmd(Ask.ret)
        /\ Ask.source \in {"cooldown", "unavailable"} =>
              /\ AIExecAt = {}
              /\ ~lastCall.ret
              /\ Occurs(<<"AIFailure">>, KindsOf(Trace))

\* ---- C11
\* C11: the daemon is always in its loop or stopped by an interrupt, so no
\* exception of an iteration ends it; and, the sleeps being fair, an
\* iteration that has ended, by completing its checks or by an exception
\* reaching the handler of lines 245-247, is always followed by the top of
\* a new iteration unless the process is interrupted.
C11_LoopSurvivesErrors ==
    /\ [](pc \in {"loop", "nas", "service", "sleep", "except", "stopped"})
    /\ (pc \in {"sleep", "except"}) ~> (pc \in {"loop", "stopped"})

\* An exception was handled and the loop is at the top of a new iteration.
C11_Witness ==
    /\ pc = "loop"
    /\ handled
    /\ cycle >= 1

\* ---- C12
\* The learned entry of the call's key is not what CACHE_FILE holds.
OnlyInMemory ==
    /\ lastCall.key \in DOMAIN lastCall.pre.cache
    /\ ~SameEntry(lastCall.pre.cache, LoadCache(lastCall.pre.file), lastCall.key)

\* C12: when the write of CACHE_FILE fails after a successful AI-derived
\* command C for key K, the call raises nothing and returns true with
\* FIX_CACHE[K] = C; and a call for a key whose entry is in FIX_CACHE (in
\* the file or not) executes that entry first, as the learned command.
C12_SaveFailureAbsorbed ==
    lastCall.called =>
        /\ lastCall.save \in {"open_fail", "write_fail"} =>
              /\ ~lastCall.raised
              /\ lastCall.ret
              /\ lastCall.key \in DOMAIN FIX_CACHE
              /\ FIX_CACHE[lastCall.key] = lastCall.cmd
              /\ \E i \in AIExecAt : Trace[i].ok /\ Trace[i].text = lastCall.cmd
        /\ (lastCall.key \in DOMAIN lastCall.pre.cache /\ Trace # <<>>) =>
              /\ CachedExecAt # {}
              /\ \A i \in CachedExecAt :
                    /\ Trace[i].text = lastCall.pre.cache[lastCall.key]
                    /\ \A j \in ExecAt : i <= j

\* A call executed, as the learned command, an entry that an earlier call
\* of the same process had learned while the write of the file failed.
C12_Witness ==
    /\ lastCall.called
    /\ OnlyInMemory
    /\ lastCall.pre.cache[lastCall.key] = <<"sudo", "mount", "-a">>
    /\ \E i \in CachedExecAt : Trace[i].text = <<"sudo", "mount", "-a">>

\* ---- C13
\* C13: wait_min is always BASE_WAIT_MIN * 2^k for k the number of calls so
\* far in which every provider failed, active is true exactly from the first
\* such call on, and no step lowers wait_min or clears active.
C13_WaitOnlyDoubles ==
    /\ [](/\ ERROR_BACKOFF.wait_min = BASE_WAIT_MIN * 2^fullFailures
          /\ ERROR_BACKOFF.active <=> fullFailures >= 1)
    /\ [][/\ ERROR_BACKOFF'.wait_min >= ERROR_BACKOFF.wait_min
          /\ ERROR_BACKOFF.active => ERROR_BACKOFF'.active]_vars

\* After two full failures a provider answered, and the backoff state is
\* what the failures left.
C13_Witness ==
    /\ Ask.called
    /\ Ask.source \in {"gemini", "openai"}
    /\ fullFailures = 2
    /\ ERROR_BACKOFF.active
    /\ ERROR_BACKOFF.wait_min = 4 * BASE_WAIT_MIN

\* ---- C14
\* C14: a call runs run_host_cmd at most twice, at most once with the
\* learned command and at most once with the AI-derived one; the AI-derived
\* one only when there was no entry or after the learned one failed; and a
\* learned command that succeeds ends the call with true, ask_ai_hybrid not
\* called and no provider contacted.
C14_AtMostTwoExecutions ==
    lastCall.called =>
        /\ Cardinality(ExecAt) <= 2
        /\ Cardinality(CachedExecAt) <= 1
        /\ Cardinality(AIExecAt) <= 1
        /\ ExecAt = CachedExecAt \cup AIExecAt
        /\ \A i \in AIExecAt :
              \/ lastCall.key \notin DOMAIN lastCall.pre.cache
              \/ \E j \in CachedExecAt : j < i /\ ~Trace[j].ok
        /\ \A j \in CachedExecAt :
              Trace[j].ok =>
                  /\ lastCall.ret
                  /\ ~Ask.called
                  /\ AskAt = {}
                  /\ \A n \in 1..Len(Trace) : ~IsProviderRequest(Trace[n])
                  /\ GEMINI_CALL_COUNT = lastCall.pre.gem
                  /\ OPENAI_CALL_COUNT = lastCall.pre.oai

\* A call ran the learned command and then the AI-derived command.
C14_Witness ==
    /\ lastCall.called
    /\ Cardinality(CachedExecAt) = 1
    /\ Cardinality(AIExecAt) = 1

\* ---- C15
\* C15: within one call, run_host_cmd is never called twice with the same
\* command text.
C15_NoRepeatedCommand ==
    lastCall.called =>
        \A i, j \in ExecAt : i # j => Trace[i].text # Trace[j].text

\* ---- C16
\* The key check_system passes for the probed target.
KeyOf(target) == IF target = "nas" THEN "nas_down" ELSE "cockpit_down"

\* C16 as stated: every probe that reports unhealthy is followed, in the
\* same step of check_system, by a call of intelligent_troubleshoot for it.
C16_EveryUnhealthyProbe ==
    (lastProbe.target # "none" /\ ~lastProbe.healthy) =>
        /\ lastCall.called
        /\ lastCall.key = KeyOf(lastProbe.target)

\* C16, amended: an unhealthy cockpit probe is always followed by a call for
\* "cockpit_down"; an unhealthy NAS probe is followed by a call for
\* "nas_down" when SYSTEM_STATE["nas"] was "ok", and by no call when it was
\* "error".
C16_UnhealthyProbeUnlessKnown ==
    /\ (lastProbe.target = "cockpit" /\ ~lastProbe.healthy) =>
          lastCall.called /\ lastCall.key = "cockpit_down"
    /\ (lastProbe.target = "nas" /\ ~lastProbe.healthy) =>
          IF lastProbe.nas_before = "ok"
          THEN lastCall.called /\ lastCall.key = "nas_down"
          ELSE ~lastCall.called

\* The cockpit probe reported unhealthy in a cycle whose NAS outage was
\* already known, and remediation of the cockpit service ran.
C16_Witness ==
    /\ lastProbe.target = "cockpit"
    /\ ~lastProbe.healthy
    /\ lastProbe.nas_before = "error"
    /\ lastCall.called
    /\ lastCall.key = "cockpit_down"
    /\ ExecAt # {}

\* ---- C17
\* C17: run_host_cmd is never called with the empty command and FIX_CACHE
\* never maps a key to it.
C17_NoEmptyCommand ==
    /\ lastCall.called => \A i \in ExecAt : Trace[i].text # <<>>
    /\ \A k \in DOMAIN FIX_CACHE : FIX_CACHE[k] # <<>>

\* ---- C18
\* C18: the NAS check calls intelligent_troubleshoot iff the probe reports
\* not mounted while SYSTEM_STATE["nas"] is "ok"; a call that does not
\* return true leaves it "error"; a missing mount seen in state "error"
\* makes no call and leaves "error"; a present mount gives "ok"; and no
\* other step writes SYSTEM_STATE["nas"].
C18_NasEdgeTriggered ==
    /\ [](lastProbe.target = "nas" =>
            /\ lastCall.called <=> (~lastProbe.healthy /\ lastProbe.nas_before = "ok")
            /\ lastCall.called => lastCall.key = "nas_down"
            /\ (lastCall.called /\ ~lastCall.ret) => SYSTEM_STATE = "error"
            /\ (lastCall.called /\ lastCall.ret) => SYSTEM_STATE = "ok"
            /\ (~lastProbe.healthy /\ lastProbe.nas_before = "error") =>
                  SYSTEM_STATE = "error"
            /\ lastProbe.healthy => SYSTEM_STATE = "ok")
    /\ [][pc # "nas" => SYSTEM_STATE' = SYSTEM_STATE]_vars

\* Two cycles after a remediation failed, the mount is still missing and
\* nothing is attempted.
C18_Witness ==
    /\ lastProbe.target = "nas"
    /\ ~lastProbe.healthy
    /\ lastProbe.nas_before = "error"
    /\ ~lastCall.called
    /\ SYSTEM_STATE = "error"
    /\ cycle >= 2

\* ---- C19
\* The call was made inside an active backoff window for a key with an entry.
CalledInWindowWithEntry ==
    /\ lastCall.called
    /\ ~lastCall.raised
    /\ lastCall.pre.backoff.active
    /\ lastCall.pre.now < lastCall.pre.backoff.next_try
    /\ lastCall.key \in DOMAIN lastCall.pre.cache

\* C19: a call made inside an active backoff window for a key with an entry
\* executes the learned command exactly once and nothing else; if it
\* succeeds the call returns true, if it fails the call returns false with
\* no provider contacted and both counters unchanged.
C19_BackoffSparesCachedFix ==
    CalledInWindowWithEntry =>
        /\ Cardinality(CachedExecAt) = 1
        /\ ExecAt = CachedExecAt
        /\ \A i \in CachedExecAt :
              /\ Trace[i].text = lastCall.pre.cache[lastCall.key]
              /\ Trace[i].ok => lastCall.ret /\ ~Ask.called
              /\ ~Trace[i].ok =>
                    /\ ~lastCall.ret
                    /\ Ask.source = "cooldown"
                    /\ \A n \in 1..Len(Trace) : ~IsProviderRequest(Trace[n])
                    /\ GEMINI_CALL_COUNT = lastCall.pre.gem
                    /\ OPENAI_CALL_COUNT = lastCall.pre.oai

\* Inside the window the learned command fixed the problem.
C19_Witness ==
    /\ CalledInWindowWithEntry
    /\ lastCall.ret
    /\ \E i \in CachedExecAt : Trace[i].ok

\* ---- C20
\* C20: every restart loads exactly the mapping of the last write of
\* CACHE_FILE that succeeded (before any such write: the mapping the first
\* start loaded).
C20_RestartLoadsLastPersisted ==
    [][Restart => FIX_CACHE' = lastPersisted]_vars

====
